---- MODULE Spec2Model ----
(***************************************************************************)
(* The zoom engine of semantic_zoom.phase6: seed capture, N-hop subgraph   *)
(* extraction over the dependency tree (with the optional transparent      *)
(* copula mode) and sparse rendering.                                      *)
(***************************************************************************)
EXTENDS Integers, Sequences, FiniteSets, TLC

(***************************************************************************)
(* Bounds of the exploration.                                              *)
(***************************************************************************)
MaxTokens == 3
MaxSeeds == 2
MaxZoom == 1
MaxBeyond == 2      \* how far a requested zoom level may exceed the token count
MaxWindow == 2      \* largest context_window of render_with_context
MaxStored == 3      \* most seeds a SeedSelector stores at once

(***************************************************************************)
(* Python values.                                                          *)
(***************************************************************************)
\* None where the other values are strings; an Optional[int] is <<>> for None
\* and <<v>> for the integer v
None == "None"

SetMax(S) == CHOOSE x \in S : \A y \in S : y <= x
SetMin(S) == CHOOSE x \in S : \A y \in S : x <= y

\* variant of Sorted: list(a set) taken in descending order
RECURSIVE ListDescending(_)
ListDescending(S) ==
    IF S = {} THEN <<>>
    ELSE LET m == SetMax(S) IN <<m>> \o ListDescending(S \ {m})

\* sorted(a set of ints): the ascending list of its members
RECURSIVE Sorted(_)
Sorted(S) ==
    IF S = {} THEN <<>>
    ELSE LET m == SetMin(S) IN <<m>> \o Sorted(S \ {m})

\* list(range(a, b + 1))
Range(a, b) == [i \in 1..(IF b >= a THEN b - a + 1 ELSE 0) |-> a + i - 1]

SeqToSet(s) == {s[i] : i \in 1..Len(s)}

(***************************************************************************)
(* Strings: str.lower, str.strip, the in operator and str.replace.         *)
(***************************************************************************)
Whitespace == {" ", "\t", "\n", "\r"}

CharAt(s, i) == SubSeq(s, i, i)

LowerTable ==
    [ A |-> "a", B |-> "b", C |-> "c", D |-> "d", E |-> "e", F |-> "f", G |-> "g",
      H |-> "h", I |-> "i", J |-> "j", K |-> "k", L |-> "l", M |-> "m", N |-> "n",
      O |-> "o", P |-> "p", Q |-> "q", R |-> "r", S |-> "s", T |-> "t", U |-> "u",
      V |-> "v", W |-> "w", X |-> "x", Y |-> "y", Z |-> "z" ]

LowerChar(c) == IF c \in DOMAIN LowerTable THEN LowerTable[c] ELSE c

RECURSIVE StrLower(_)
StrLower(s) ==
    IF Len(s) = 0 THEN ""
    ELSE LowerChar(CharAt(s, 1)) \o StrLower(SubSeq(s, 2, Len(s)))

RECURSIVE LStrip(_)
LStrip(s) ==
    IF Len(s) > 0 /\ CharAt(s, 1) \in Whitespace THEN LStrip(SubSeq(s, 2, Len(s))) ELSE s

RECURSIVE RStrip(_)
RStrip(s) ==
    IF Len(s) > 0 /\ CharAt(s, Len(s)) \in Whitespace THEN RStrip(SubSeq(s, 1, Len(s) - 1)) ELSE s

Strip(s) == RStrip(LStrip(s))

StartsWith(s, p) == Len(p) <= Len(s) /\ SubSeq(s, 1, Len(p)) = p

\* sub in s
StrContains(s, sub) ==
    \E i \in 1..(Len(s) - Len(sub) + 1) : SubSeq(s, i, i + Len(sub) - 1) = sub

\* s.replace(old, new) for a non-empty old: leftmost, non-overlapping
RECURSIVE StrReplace(_, _, _)
StrReplace(s, old, new) ==
    IF Len(s) = 0 THEN ""
    ELSE IF StartsWith(s, old)
         THEN new \o StrReplace(SubSeq(s, Len(old) + 1, Len(s)), old, new)
         ELSE CharAt(s, 1) \o StrReplace(SubSeq(s, 2, Len(s)), old, new)

\* the number of non-overlapping occurrences of sub in s
RECURSIVE StrCount(_, _)
StrCount(s, sub) ==
    IF Len(s) < Len(sub) \/ Len(sub) = 0 THEN 0
    ELSE IF StartsWith(s, sub)
         THEN 1 + StrCount(SubSeq(s, Len(sub) + 1, Len(s)), sub)
         ELSE StrCount(SubSeq(s, 2, Len(s)), sub)

(***************************************************************************)
(* ParsedToken sequences as DependencyParser.parse builds them for a text  *)
(* of one sentence: ids are the positions 0..n-1, head_id is -1 exactly    *)
(* for the one token whose dep is ROOT, the heads form a tree, and         *)
(* children_ids is the inverse of head_id in ascending id order.           *)
(***************************************************************************)
RootLexemes ==
    { [text |-> "is", pos |-> "AUX", dep |-> "ROOT"],
      [text |-> "sat", pos |-> "VERB", dep |-> "ROOT"] }

\* a dependent before its head is a subject, one after it a complement
SubjectLexeme == [text |-> "It", pos |-> "PRON", dep |-> "nsubj"]
ComplementLexeme == [text |-> "happy", pos |-> "ADJ", dep |-> "acomp"]

\* text.lower(), tabulated once for the texts of the lexemes
LoweredLexemes ==
    [ t \in {l.text : l \in RootLexemes \cup {SubjectLexeme, ComplementLexeme}} |-> StrLower(t) ]
Lower(text) == IF text \in DOMAIN LoweredLexemes THEN LoweredLexemes[text] ELSE StrLower(text)

RECURSIVE ReachesRoot(_, _, _)
ReachesRoot(h, i, fuel) ==
    IF h[i] = -1 THEN TRUE
    ELSE IF fuel = 0 THEN FALSE
    ELSE ReachesRoot(h, h[i], fuel - 1)

\* head vectors over ids 0..n-1 without a cycle and with one root
DependencyTrees(n) ==
    { h \in [0..(n - 1) -> -1..(n - 1)] :
        /\ \A i \in 0..(n - 1) : h[i] # i /\ ReachesRoot(h, i, n)
        /\ Cardinality({i \in 0..(n - 1) : h[i] = -1}) <= 1 }

Lexings(n, h) ==
    { l \in [0..(n - 1) -> RootLexemes \cup {SubjectLexeme, ComplementLexeme}] :
        \A i \in 0..(n - 1) :
            /\ (h[i] = -1) <=> (l[i] \in RootLexemes)
            /\ (h[i] # -1 /\ i < h[i]) => l[i] = SubjectLexeme
            /\ (h[i] # -1 /\ i > h[i]) => l[i] = ComplementLexeme }

RECURSIVE StartChar(_, _)
StartChar(l, i) ==
    IF i = 0 THEN 0 ELSE StartChar(l, i - 1) + Len(l[i - 1].text) + 1

\* the parser's second pass: children_ids.append(pt.id) in id order
ChildrenOf(n, h, i) == Sorted({c \in 0..(n - 1) : h[c] = i})

ParsedToken(n, h, l, i) ==
    [ id |-> i,
      text |-> l[i].text,
      whitespace_after |-> IF i = n - 1 THEN "" ELSE " ",
      start_char |-> StartChar(l, i),
      end_char |-> StartChar(l, i) + Len(l[i].text),
      pos |-> l[i].pos,
      head_id |-> h[i],
      dep |-> l[i].dep,
      children_ids |-> ChildrenOf(n, h, i) ]

Parse(n, h, l) == [k \in 1..n |-> ParsedToken(n, h, l, k - 1)]

TokenSeqs ==
    UNION { UNION { { Parse(n, h, l) : l \in Lexings(n, h) } : h \in DependencyTrees(n) } :
            n \in 0..MaxTokens }

\* documents with an auxiliary that is not the root, as "was" in "She was
\* running": a dependent before its head is a subject or an auxiliary
AuxLexeme == [text |-> "was", pos |-> "AUX", dep |-> "aux"]

AuxLexings(n, h) ==
    { l \in [0..(n - 1) -> RootLexemes \cup {SubjectLexeme, AuxLexeme, ComplementLexeme}] :
        \A i \in 0..(n - 1) :
            /\ (h[i] = -1) <=> (l[i] \in RootLexemes)
            /\ (h[i] # -1 /\ i < h[i]) => l[i] \in {SubjectLexeme, AuxLexeme}
            /\ (h[i] # -1 /\ i > h[i]) => l[i] = ComplementLexeme }

AuxSeqs ==
    UNION { UNION { { Parse(n, h, l) : l \in AuxLexings(n, h) } : h \in DependencyTrees(n) } :
            n \in 0..MaxTokens }

(***************************************************************************)
(* Token lists with clauses.  A list built by hand, as the tests build     *)
(* ParsedToken values, may name as head any id: a later token, a token of  *)
(* a cycle, or the id of no token (n).  The parser gives head_id -1 and    *)
(* dep ROOT to a token that is its own head.                               *)
(***************************************************************************)
ClauseRootLexeme == [text |-> "stayed", pos |-> "VERB", dep |-> "ROOT"]
ClauseLexemes ==
    { [text |-> "came", pos |-> "VERB", dep |-> "advcl"],
      [text |-> "rain", pos |-> "NOUN", dep |-> "nsubj"] }

HeadGraphs(n) ==
    { h \in [0..(n - 1) -> -1..n] : \A i \in 0..(n - 1) : h[i] # i }

ClauseLexings(n, h) ==
    { l \in [0..(n - 1) -> {ClauseRootLexeme} \cup ClauseLexemes] :
        \A i \in 0..(n - 1) : (h[i] = -1) <=> (l[i] = ClauseRootLexeme) }

ClauseSeqs ==
    UNION { UNION { { Parse(n, h, l) : l \in ClauseLexings(n, h) } : h \in HeadGraphs(n) } :
            n \in 0..MaxTokens }

(***************************************************************************)
(* Documents as Tokenizer.tokenize and DependencyParser.parse build them   *)
(* for a line of words: a token carries the whitespace that follows it in  *)
(* the text, none after the last one; the first token is the root and the  *)
(* others depend on it.                                                    *)
(***************************************************************************)
\* a noun, a token tagged PRON, a token whose lowercased text is a pronoun form
WordLexemes ==
    { [text |-> "cat", pos |-> "NOUN", whitespace |-> " "],
      [text |-> "someone", pos |-> "PRON", whitespace |-> " "],
      [text |-> "That", pos |-> "SCONJ", whitespace |-> " "] }

\* the tokens of a bracketed ellipsis: "[" and "..." stick to what follows
PieceLexemes ==
    { [text |-> "[", pos |-> "PUNCT", whitespace |-> ""],
      [text |-> "...", pos |-> "PUNCT", whitespace |-> ""],
      [text |-> "]", pos |-> "PUNCT", whitespace |-> " "] }

\* an interjection, the sentence-final marks, and the token a second blank
\* of the text becomes (the first blank is the whitespace of the token before)
SentenceLexemes ==
    { [text |-> "Hi", pos |-> "INTJ", whitespace |-> " "],
      [text |-> ".", pos |-> "PUNCT", whitespace |-> " "],
      [text |-> "!", pos |-> "PUNCT", whitespace |-> " "],
      [text |-> "?", pos |-> "PUNCT", whitespace |-> " "],
      [text |-> " ", pos |-> "SPACE", whitespace |-> ""] }

RECURSIVE CharsBefore(_, _)
CharsBefore(words, k) ==
    IF k = 1 THEN 0
    ELSE CharsBefore(words, k - 1) + Len(words[k - 1].text) + Len(words[k - 1].whitespace)

LineToken(words, k) ==
    [ id |-> k - 1,
      text |-> words[k].text,
      whitespace_after |-> IF k = Len(words) THEN "" ELSE words[k].whitespace,
      start_char |-> CharsBefore(words, k),
      end_char |-> CharsBefore(words, k) + Len(words[k].text),
      pos |-> words[k].pos,
      head_id |-> IF k = 1 THEN -1 ELSE 0,
      dep |-> IF k = 1 THEN "ROOT" ELSE "dep",
      children_ids |-> IF k = 1 THEN [j \in 1..(Len(words) - 1) |-> j] ELSE <<>> ]

ParseLine(words) == [k \in 1..Len(words) |-> LineToken(words, k)]

\* the documents of at most max_len tokens over a set of lexemes
Lines(lexemes, max_len) ==
    UNION { { ParseLine(words) : words \in [1..n -> lexemes] } : n \in 0..max_len }

\* next((t for t in tokens if t.id == token_id), None); ids are unique
HasToken(toks, token_id) == \E k \in 1..Len(toks) : toks[k].id = token_id
TokenById(toks, token_id) == toks[CHOOSE k \in 1..Len(toks) : toks[k].id = token_id]

(***************************************************************************)
(* seed_selection.py: SeedSelector                                         *)
(***************************************************************************)
sentence_end_punct == {".", "!", "?"}
clause_deps == {"ccomp", "xcomp", "advcl", "relcl", "acl", "ROOT"}

\* _build_text: text of each token, whitespace_after between consecutive ones
RECURSIVE JoinTokens(_, _)
JoinTokens(sel, k) ==
    IF k > Len(sel) THEN ""
    ELSE sel[k].text \o (IF k < Len(sel) THEN sel[k].whitespace_after ELSE "")
         \o JoinTokens(sel, k + 1)

SortById(sel) ==
    LET ids == Sorted({sel[k].id : k \in 1..Len(sel)})
    IN  [k \in 1..Len(ids) |-> TokenById(sel, ids[k])]

_build_text(sel) == IF Len(sel) = 0 THEN "" ELSE JoinTokens(SortById(sel), 1)

\* first loop of _find_sentence_bounds: scan until the first id >= token_id
RECURSIVE SentenceStartScan(_, _, _, _)
SentenceStartScan(toks, token_id, k, start_id) ==
    IF k > Len(toks) \/ toks[k].id >= token_id THEN start_id
    ELSE SentenceStartScan(toks, token_id, k + 1,
            IF toks[k].text \in sentence_end_punct THEN toks[k].id + 1 ELSE start_id)

\* variant of SentenceEndScan: the first terminal punctuation of the document
RECURSIVE SentenceEndScanFromStart(_, _, _)
SentenceEndScanFromStart(toks, token_id, k) ==
    IF k > Len(toks) THEN Len(toks) - 1
    ELSE IF toks[k].text \in sentence_end_punct THEN toks[k].id
    ELSE SentenceEndScanFromStart(toks, token_id, k + 1)

\* second loop: the first terminal punctuation at or after token_id
RECURSIVE SentenceEndScan(_, _, _)
SentenceEndScan(toks, token_id, k) ==
    IF k > Len(toks) THEN Len(toks) - 1
    ELSE IF toks[k].id >= token_id /\ toks[k].text \in sentence_end_punct THEN toks[k].id
    ELSE SentenceEndScan(toks, token_id, k + 1)

_find_sentence_bounds(toks, token_id) ==
    <<SentenceStartScan(toks, token_id, 1, 0), SentenceEndScan(toks, token_id, 1)>>

\* variant of ClauseWalk: climbs to the top of the chain whatever the labels
RECURSIVE ClauseWalkToTop(_, _, _)
ClauseWalkToTop(toks, current, visited) ==
    IF current.head_id >= 0 /\ current.head_id \notin visited
    THEN IF ~HasToken(toks, current.head_id) THEN current.id
         ELSE ClauseWalkToTop(toks, TokenById(toks, current.head_id),
                              visited \cup {current.head_id})
    ELSE current.id

RECURSIVE ClauseWalk(_, _, _)
ClauseWalk(toks, current, visited) ==
    IF current.head_id >= 0 /\ current.head_id \notin visited
    THEN IF current.dep \in clause_deps \/ current.dep = "ROOT" THEN current.id
         ELSE IF ~HasToken(toks, current.head_id) THEN current.id
         ELSE ClauseWalk(toks, TokenById(toks, current.head_id),
                         visited \cup {current.head_id})
    ELSE current.id

_find_clause_root(toks, token_id) ==
    IF ~HasToken(toks, token_id) THEN <<>>
    ELSE <<ClauseWalk(toks, TokenById(toks, token_id), {token_id})>>

\* the tokens of toks whose id is in word_ids, in sequence order
SelectTokens(toks, word_ids) ==
    SelectSeq(toks, LAMBDA t : t.id \in SeqToSet(word_ids))

\* select_range; uid stands for str(uuid.uuid4())[:8]
select_range(toks, start_id, end_id, uid) ==
    LET word_ids == Range(start_id, end_id)
        bounds == _find_sentence_bounds(toks, start_id)
    IN  [ id |-> uid,
          start_id |-> start_id,
          end_id |-> end_id,
          word_ids |-> word_ids,
          text |-> _build_text(SelectTokens(toks, word_ids)),
          sentence_start_id |-> bounds[1],
          sentence_end_id |-> bounds[2],
          clause_root_id |-> _find_clause_root(toks, start_id) ]

\* variant of select_by_chars: a token that only touches the interval overlaps it
select_by_chars_touching(toks, start_char, end_char, uid) ==
    LET overlapping == { k \in 1..Len(toks) :
                           toks[k].start_char <= end_char /\ toks[k].end_char >= start_char }
    IN  IF overlapping = {} THEN select_range(toks, 0, 0, uid)
        ELSE select_range(toks, toks[SetMin(overlapping)].id, toks[SetMax(overlapping)].id, uid)

\* select_by_chars: the first and last token that overlap [start_char, end_char)
select_by_chars(toks, start_char, end_char, uid) ==
    LET overlapping == { k \in 1..Len(toks) :
                           toks[k].start_char < end_char /\ toks[k].end_char > start_char }
    IN  IF overlapping = {} THEN select_range(toks, 0, 0, uid)
        ELSE select_range(toks, toks[SetMin(overlapping)].id, toks[SetMax(overlapping)].id, uid)

\* list.pop(i) on a 1-based sequence
PopAt(seed_list, i) ==
    SubSeq(seed_list, 1, i - 1) \o SubSeq(seed_list, i + 1, Len(seed_list))

\* variant of remove_seed: pops the last stored seed when the id is found
remove_seed_pop_last(seed_list, seed_id) ==
    IF \E i \in 1..Len(seed_list) : seed_list[i].id = seed_id
    THEN [seeds |-> PopAt(seed_list, Len(seed_list)), returned |-> TRUE]
    ELSE [seeds |-> seed_list, returned |-> FALSE]

\* remove_seed: pops the first stored seed with that id; _seeds after the call
\* and the value returned
remove_seed(seed_list, seed_id) ==
    LET found == { i \in 1..Len(seed_list) : seed_list[i].id = seed_id }
    IN  IF found # {}
        THEN [seeds |-> PopAt(seed_list, SetMin(found)), returned |-> TRUE]
        ELSE [seeds |-> seed_list, returned |-> FALSE]

\* add_seed: self._seeds.append(seed)
add_seed(seed_list, seed) == Append(seed_list, seed)

get_all_seed_word_ids(seed_list) ==
    UNION { SeqToSet(seed_list[k].word_ids) : k \in 1..Len(seed_list) }

\* what a call gives back: the value it returns, or the exception it raises
Returns(value) == [raises |-> None, value |-> value]
Raises(exception) == [raises |-> exception, value |-> <<>>]

\* ids.extend(...) over the recursive calls, in the order of the loop
RECURSIVE ExtendAll(_, _)
ExtendAll(subs, k) ==
    IF k > Len(subs) THEN <<>> ELSE subs[k].value \o ExtendAll(subs, k + 1)

\* variant of _get_subtree_ids: the root and its direct dependents only
_get_subtree_ids_one_level(toks, root_id, stack) ==
    Returns(Sorted({root_id} \cup
                   {toks[k].id : k \in {j \in 1..Len(toks) :
                                          toks[j].head_id = root_id /\ toks[j].id # root_id}}))

\* _get_subtree_ids: one recursive call per token whose head is root_id.  The
\* function keeps no visited set: stack holds the root_id of every call in
\* progress, and a call that meets a root_id of its own stack recurses without
\* end, which Python ends with RecursionError.  No id is collected twice when
\* the calls return, so sorted(ids) is the sorted set of the ids.
RECURSIVE _get_subtree_ids(_, _, _)
_get_subtree_ids(toks, root_id, stack) ==
    IF root_id \in stack THEN Raises("RecursionError")
    ELSE LET dependents == SelectSeq(toks, LAMBDA t : t.head_id = root_id /\ t.id # root_id)
             subs == [k \in 1..Len(dependents) |->
                        _get_subtree_ids(toks, dependents[k].id, stack \cup {root_id})]
         IN  IF \E k \in 1..Len(subs) : subs[k].raises # None
             THEN Raises("RecursionError")
             ELSE Returns(Sorted(SeqToSet(<<root_id>> \o ExtendAll(subs, 1))))

get_clause_token_ids(toks, seed) ==
    IF seed.clause_root_id = <<>> THEN Returns(seed.word_ids)
    ELSE _get_subtree_ids(toks, seed.clause_root_id[1], {})

(***************************************************************************)
(* subgraph_extraction.py: SubgraphExtractor                               *)
(***************************************************************************)
COPULA_LEMMAS == {"be", "is", "am", "are", "was", "were", "been", "being"}

SubgraphResult(word_ids, zoom_level, seed_ids) ==
    [word_ids |-> word_ids, zoom_level |-> zoom_level, seed_ids |-> seed_ids]

\* variant of _find_copula_ids: a form of "be" tagged AUX in any position
_find_copula_ids_any_position(toks) ==
    { toks[k].id : k \in { j \in 1..Len(toks) :
        /\ toks[j].pos = "AUX"
        /\ Lower(toks[j].text) \in COPULA_LEMMAS } }

_find_copula_ids(toks) ==
    { toks[k].id : k \in { j \in 1..Len(toks) :
        /\ toks[j].pos = "AUX"
        /\ toks[j].dep = "ROOT"
        /\ Lower(toks[j].text) \in COPULA_LEMMAS } }

\* variant of TokenLinks: no link between the children of a transparent head
TokenLinksHeadAndChildren(toks, token, transparent) ==
    LET head_id == token.head_id
        to_head ==
            IF head_id >= 0 /\ head_id < Len(toks) /\ head_id \notin transparent
            THEN {<<token.id, head_id>>}
            ELSE {}
        to_children ==
            { <<token.id, child_id>> :
                child_id \in { c \in SeqToSet(token.children_ids) :
                                 c < Len(toks) /\ c \notin transparent } }
    IN  to_head \cup to_children

\* variant of TokenLinks: the dependents of every head are linked to each
\* other, as if every head were transparent
TokenLinksThroughAnyHead(toks, token, transparent) ==
    LET head_id == token.head_id
        through ==
            IF head_id >= 0 /\ HasToken(toks, head_id)
            THEN { <<token.id, sibling_id>> :
                     sibling_id \in { c \in SeqToSet(TokenById(toks, head_id).children_ids) :
                                        c # token.id /\ c < Len(toks) } }
            ELSE {}
        to_head ==
            IF head_id >= 0 /\ head_id < Len(toks) /\ head_id \notin transparent
            THEN {<<token.id, head_id>>}
            ELSE {}
        to_children ==
            { <<token.id, child_id>> :
                child_id \in { c \in SeqToSet(token.children_ids) :
                                 c < Len(toks) /\ c \notin transparent } }
    IN  through \cup to_head \cup to_children

\* the links one token adds in the loop of _build_adjacency, as ordered pairs
TokenLinks(toks, token, transparent) ==
    LET head_id == token.head_id
        through ==
            IF head_id \in transparent /\ head_id >= 0 /\ HasToken(toks, head_id)
            THEN { <<token.id, sibling_id>> :
                     sibling_id \in { c \in SeqToSet(TokenById(toks, head_id).children_ids) :
                                        c # token.id /\ c < Len(toks) } }
            ELSE {}
        to_head ==
            IF head_id >= 0 /\ head_id < Len(toks) /\ head_id \notin transparent
            THEN {<<token.id, head_id>>}
            ELSE {}
        to_children ==
            { <<token.id, child_id>> :
                child_id \in { c \in SeqToSet(token.children_ids) :
                                 c < Len(toks) /\ c \notin transparent } }
    IN  through \cup to_head \cup to_children

\* every link is entered in both directions
_build_adjacency(toks, transparent_ids) ==
    LET links == UNION { TokenLinks(toks, toks[k], transparent_ids) : k \in 1..Len(toks) }
    IN  [ i \in {toks[k].id : k \in 1..Len(toks)} |->
            {e[2] : e \in {l \in links : l[1] = i}} \cup
            {e[1] : e \in {l \in links : l[2] = i}} ]

\* one iteration of the loop of _expand_n_hops
NextFrontier(current, expanded, adjacency, max_id) ==
    { neighbor_id \in UNION { adjacency[token_id] : token_id \in current \cap DOMAIN adjacency } :
        neighbor_id \notin expanded /\ neighbor_id < max_id }

\* variant of ExpandLoop: expanded = next_frontier instead of expanded.update
RECURSIVE ExpandLoopOverwrite(_, _, _, _, _)
ExpandLoopOverwrite(current, expanded, adjacency, hops_left, max_id) ==
    IF hops_left <= 0 THEN expanded
    ELSE LET next_frontier == NextFrontier(current, expanded, adjacency, max_id)
         IN  IF next_frontier = {} THEN next_frontier
             ELSE ExpandLoopOverwrite(next_frontier, next_frontier, adjacency,
                                      hops_left - 1, max_id)

\* variant of ExpandLoop: range(n_hops + 1)
RECURSIVE ExpandLoopOneMore(_, _, _, _, _)
ExpandLoopOneMore(current, expanded, adjacency, hops_left, max_id) ==
    IF hops_left < 0 THEN expanded
    ELSE LET next_frontier == NextFrontier(current, expanded, adjacency, max_id)
         IN  IF next_frontier = {} THEN expanded
             ELSE ExpandLoopOneMore(next_frontier, expanded \cup next_frontier, adjacency,
                                    hops_left - 1, max_id)

RECURSIVE ExpandLoop(_, _, _, _, _)
ExpandLoop(current, expanded, adjacency, hops_left, max_id) ==
    IF hops_left <= 0 THEN expanded
    ELSE LET next_frontier == NextFrontier(current, expanded, adjacency, max_id)
         IN  IF next_frontier = {} THEN expanded
             ELSE ExpandLoop(next_frontier, expanded \cup next_frontier, adjacency,
                             hops_left - 1, max_id)

\* variant of _expand_n_hops: expanded = set() instead of set(start_ids)
_expand_n_hops_from_empty(start_ids, adjacency, n_hops, max_id) ==
    ExpandLoop(start_ids, {}, adjacency, n_hops, max_id)

_expand_n_hops(start_ids, adjacency, n_hops, max_id) ==
    ExpandLoop(start_ids, start_ids, adjacency, n_hops, max_id)

\* should_skip = skip_copulas if skip_copulas is not None else self.skip_copulas
\* (the per-call argument is None, "True" or "False")
ShouldSkip(self_skip, override) == IF override # None THEN override = "True" ELSE self_skip

\* variant of SeedWordIds: only seeds[0] is read
FirstSeedWordIds(seed_list) == SeqToSet(seed_list[1].word_ids)

\* seed_word_ids.update(seed.word_ids) for each seed
SeedWordIds(seed_list) == UNION { SeqToSet(seed_list[k].word_ids) : k \in 1..Len(seed_list) }

\* variant of DropCopulas: the final filter is missing
KeepCopulas(expanded_ids, copula_ids, should_skip) == expanded_ids

\* the final filter: expanded_ids - copula_ids when skipping
DropCopulas(expanded_ids, copula_ids, should_skip) ==
    IF should_skip THEN expanded_ids \ copula_ids ELSE expanded_ids

\* the ids of the seeds in the order of the list, each once
RECURSIVE InListOrder(_, _)
InListOrder(ids, seen) ==
    IF Len(ids) = 0 THEN <<>>
    ELSE IF Head(ids) \in seen THEN InListOrder(Tail(ids), seen)
    ELSE <<Head(ids)>> \o InListOrder(Tail(ids), seen \cup {Head(ids)})

RECURSIVE Flatten(_)
Flatten(lists) == IF Len(lists) = 0 THEN <<>> ELSE Head(lists) \o Flatten(Tail(lists))

\* variant of extract: the seed ids first, as listed, then the added ids
extract_seeds_first(self_skip, toks, seed_list, zoom_level, override) ==
    IF Len(seed_list) = 0 THEN SubgraphResult(<<>>, zoom_level, <<>>)
    ELSE LET should_skip == ShouldSkip(self_skip, override)
             copula_ids == IF should_skip THEN _find_copula_ids(toks) ELSE {}
             adjacency == _build_adjacency(toks, IF should_skip THEN copula_ids ELSE {})
             expanded_ids == _expand_n_hops(SeedWordIds(seed_list), adjacency,
                                            zoom_level, Len(toks))
             kept == DropCopulas(expanded_ids, copula_ids, should_skip)
             first == SelectSeq(
                        InListOrder(Flatten([k \in 1..Len(seed_list) |-> seed_list[k].word_ids]), {}),
                        LAMBDA i : i \in kept)
         IN  SubgraphResult(first \o Sorted(kept \ SeqToSet(first)),
                            zoom_level,
                            [k \in 1..Len(seed_list) |-> seed_list[k].id])

extract(self_skip, toks, seed_list, zoom_level, override) ==
    IF Len(seed_list) = 0 THEN SubgraphResult(<<>>, zoom_level, <<>>)
    ELSE LET should_skip == ShouldSkip(self_skip, override)
             copula_ids == IF should_skip THEN _find_copula_ids(toks) ELSE {}
             adjacency == _build_adjacency(toks, IF should_skip THEN copula_ids ELSE {})
             expanded_ids == _expand_n_hops(SeedWordIds(seed_list), adjacency,
                                            zoom_level, Len(toks))
         IN  SubgraphResult(Sorted(DropCopulas(expanded_ids, copula_ids, should_skip)),
                            zoom_level,
                            [k \in 1..Len(seed_list) |-> seed_list[k].id])

(***************************************************************************)
(* sparse_render.py: SparseRenderer                                        *)
(***************************************************************************)
PRONOUNS ==
    { "i", "you", "he", "she", "it", "we", "they",
      "me", "him", "her", "us", "them",
      "my", "your", "his", "its", "our", "their",
      "mine", "yours", "hers", "ours", "theirs",
      "myself", "yourself", "himself", "herself", "itself", "ourselves", "themselves",
      "this", "that", "these", "those",
      "who", "whom", "whose", "which", "what" }

DefaultPlaceholder == "[...]"

\* variant of find_pronouns: only the POS tag is consulted
find_pronouns_by_tag(toks) ==
    { toks[k].id : k \in { j \in 1..Len(toks) : toks[j].pos = "PRON" } }

find_pronouns(toks) ==
    { toks[k].id : k \in { j \in 1..Len(toks) :
        toks[j].pos = "PRON" \/ Lower(toks[j].text) \in PRONOUNS } }

\* the loop of render: st = [parts (joined so far), any (parts is non-empty), in_gap]
RECURSIVE RenderLoop(_, _, _, _, _)
RenderLoop(placeholder, toks, include_ids, k, st) ==
    IF k > Len(toks) THEN st
    ELSE RenderLoop(placeholder, toks, include_ids, k + 1,
            IF toks[k].id \in include_ids
            THEN [ parts |-> st.parts
                             \o (IF st.in_gap THEN placeholder \o " " ELSE "")
                             \o toks[k].text \o toks[k].whitespace_after,
                   any |-> TRUE,
                   in_gap |-> FALSE ]
            ELSE [st EXCEPT !.in_gap = TRUE])

\* while f"{p} {p}" in rendered: rendered = rendered.replace(f"{p} {p}", p)
RECURSIVE CollapsePlaceholders(_, _)
CollapsePlaceholders(rendered, placeholder) ==
    LET double == placeholder \o " " \o placeholder
    IN  IF StrContains(rendered, double)
        THEN CollapsePlaceholders(StrReplace(rendered, double, placeholder), placeholder)
        ELSE rendered

\* variant of render: no early return for an empty word_ids
render_without_empty_guard(placeholder, toks, result, preserve_pronouns) ==
    LET include_ids == SeqToSet(result.word_ids) \cup
                       (IF preserve_pronouns THEN find_pronouns(toks) ELSE {})
        st == RenderLoop(placeholder, toks, include_ids, 1,
                         [parts |-> "", any |-> FALSE, in_gap |-> FALSE])
        joined == st.parts \o (IF st.in_gap /\ st.any THEN placeholder ELSE "")
    IN  CollapsePlaceholders(Strip(joined), placeholder)

\* variant of render: the trailing gap gets no placeholder
render_without_trailing_gap(placeholder, toks, result, preserve_pronouns) ==
    IF Len(result.word_ids) = 0 THEN ""
    ELSE LET include_ids == SeqToSet(result.word_ids) \cup
                            (IF preserve_pronouns THEN find_pronouns(toks) ELSE {})
             st == RenderLoop(placeholder, toks, include_ids, 1,
                              [parts |-> "", any |-> FALSE, in_gap |-> FALSE])
         IN  CollapsePlaceholders(Strip(st.parts), placeholder)

render(placeholder, toks, result, preserve_pronouns) ==
    IF Len(result.word_ids) = 0 THEN ""
    ELSE LET include_ids == SeqToSet(result.word_ids) \cup
                            (IF preserve_pronouns THEN find_pronouns(toks) ELSE {})
             st == RenderLoop(placeholder, toks, include_ids, 1,
                              [parts |-> "", any |-> FALSE, in_gap |-> FALSE])
             joined == st.parts \o (IF st.in_gap /\ st.any THEN placeholder ELSE "")
         IN  CollapsePlaceholders(Strip(joined), placeholder)

\* variant of ContextIds: range(0, w + 1), the ids after each id only
ContextIdsForward(toks, word_ids, context_window) ==
    { word_id + offset :
        <<word_id, offset>> \in SeqToSet(word_ids) \X (0..context_window) }
    \cap (0..(Len(toks) - 1))

\* expanded_ids of render_with_context: range(-w, w + 1) around each id, clamped
ContextIds(toks, word_ids, context_window) ==
    { word_id + offset :
        <<word_id, offset>> \in SeqToSet(word_ids) \X ((-context_window)..context_window) }
    \cap (0..(Len(toks) - 1))

render_with_context(placeholder, toks, result, context_window) ==
    IF Len(result.word_ids) = 0 THEN ""
    ELSE render(placeholder, toks,
                SubgraphResult(Sorted(ContextIds(toks, result.word_ids, context_window)),
                               result.zoom_level, result.seed_ids),
                FALSE)

\* variant of GapLoop: every omitted token counts as a gap
RECURSIVE GapLoopPerToken(_, _, _, _)
GapLoopPerToken(toks, word_ids, k, st) ==
    IF k > Len(toks) THEN [st EXCEPT !.in_gap = FALSE]
    ELSE GapLoopPerToken(toks, word_ids, k + 1,
            IF toks[k].id \in SeqToSet(word_ids) THEN st
            ELSE [st EXCEPT !.gaps = st.gaps + 1])

\* the gap loop of get_coverage_stats: st = [gaps, in_gap]
RECURSIVE GapLoop(_, _, _, _)
GapLoop(toks, word_ids, k, st) ==
    IF k > Len(toks) THEN st
    ELSE GapLoop(toks, word_ids, k + 1,
            IF toks[k].id \in SeqToSet(word_ids)
            THEN [ gaps |-> IF st.in_gap THEN st.gaps + 1 ELSE st.gaps, in_gap |-> FALSE ]
            ELSE [st EXCEPT !.in_gap = TRUE])

\* coverage_percent is the quotient num / den (exact; the float of the code
\* equals it whenever the quotient is a whole number)
get_coverage_stats(toks, result) ==
    LET total_tokens == Len(toks)
        included_tokens == Len(result.word_ids)
        st == GapLoop(toks, result.word_ids, 1, [gaps |-> 0, in_gap |-> FALSE])
    IN  [ total_tokens |-> total_tokens,
          included_tokens |-> included_tokens,
          coverage_percent |->
              IF total_tokens > 0
              THEN [num |-> included_tokens * 100, den |-> total_tokens]
              ELSE [num |-> 0, den |-> 1],
          gap_count |-> IF st.in_gap THEN st.gaps + 1 ELSE st.gaps,
          zoom_level |-> result.zoom_level ]

(***************************************************************************)
(* The engine as a state machine: a parsed document, the seeds captured    *)
(* over it, one SubgraphExtractor and one SparseRenderer.  An Optional     *)
(* value is <<>> (absent) or <<v>>.                                        *)
(***************************************************************************)
VARIABLES
    tokens,         \* the parser's output, List[ParsedToken]
    seeds,          \* the seed list handed to extract, List[Seed]
    skip_copulas,   \* SubgraphExtractor.skip_copulas
    call,           \* the arguments of the latest extract call
    result,         \* the SubgraphResult it returned
    rendered,       \* the rendering of result, once render has run
    view,           \* the latest SparseRenderer call: its name and argument
    stats,          \* the dict of get_coverage_stats, once it has run
    reply           \* the latest query of the SeedSelector and what it returned

vars == <<tokens, seeds, skip_copulas, call, result, rendered, view, stats, reply>>

ZoomLevels == -1..MaxZoom
Overrides == {None, "True", "False"}

\* str(uuid.uuid4())[:8]: one distinct id per captured range
SeedUid(start_id, end_id) == "seed-" \o ToString(start_id) \o "-" \o ToString(end_id)

\* the seeds select_range(tokens, i, i) captures, one token each
SeedsOver(toks) ==
    { select_range(toks, i, i, SeedUid(i, i)) : i \in 0..(MaxTokens - 1) }

SeedLists(toks, max_seeds) ==
    UNION { [1..n -> SeedsOver(toks)] : n \in 0..max_seeds }

InitWith(max_seeds) ==
    /\ tokens \in TokenSeqs
    /\ seeds \in SeedLists(tokens, max_seeds)
    /\ skip_copulas \in BOOLEAN
    /\ call = <<>>
    /\ result = <<>>
    /\ rendered = <<>>
    /\ view = <<>>
    /\ stats = <<>>
    /\ reply = <<>>

Init == InitWith(MaxSeeds)

\* result = extractor.extract(tokens, seeds, zoom_level, skip_copulas=override)
\* (one query per document, which may be issued again)
Extract(zoom_level, override) ==
    /\ call = <<>> \/ call = <<[zoom_level |-> zoom_level, skip_copulas |-> override]>>
    /\ call' = <<[zoom_level |-> zoom_level, skip_copulas |-> override]>>
    /\ result' = <<extract(skip_copulas, tokens, seeds, zoom_level, override)>>
    /\ rendered' = <<>>
    /\ view' = <<>>
    /\ stats' = <<>>
    /\ UNCHANGED <<tokens, seeds, skip_copulas, reply>>

\* rendered = SparseRenderer().render(tokens, result, preserve_pronouns)
Render(preserve_pronouns) ==
    /\ result # <<>>
    /\ rendered' = <<render(DefaultPlaceholder, tokens, result[1], preserve_pronouns)>>
    /\ view' = <<[op |-> "render", preserve_pronouns |-> preserve_pronouns]>>
    /\ UNCHANGED <<tokens, seeds, skip_copulas, call, result, stats, reply>>

Next ==
    \E zoom_level \in ZoomLevels, override \in Overrides : Extract(zoom_level, override)

Spec == Init /\ [][Next]_vars

\* query and display, over at most one seed
InitRender == InitWith(1)

NextRender ==
    \/ \E zoom_level \in ZoomLevels, override \in Overrides : Extract(zoom_level, override)
    \/ \E preserve_pronouns \in BOOLEAN : Render(preserve_pronouns)

SpecRender == InitRender /\ [][NextRender]_vars

\* variant of RenderWithContext: result.word_ids = sorted(expanded_ids), in place
RenderWithContextInPlace(context_window) ==
    /\ result # <<>>
    /\ rendered' = <<render_with_context(DefaultPlaceholder, tokens, result[1], context_window)>>
    /\ view' = <<[op |-> "render_with_context", context_window |-> context_window]>>
    /\ result' = <<[result[1] EXCEPT
                      !.word_ids = Sorted(ContextIds(tokens, result[1].word_ids, context_window))]>>
    /\ UNCHANGED <<tokens, seeds, skip_copulas, call, stats, reply>>

\* rendered = SparseRenderer().render_with_context(tokens, result, context_window)
RenderWithContext(context_window) ==
    /\ result # <<>>
    /\ rendered' = <<render_with_context(DefaultPlaceholder, tokens, result[1], context_window)>>
    /\ view' = <<[op |-> "render_with_context", context_window |-> context_window]>>
    /\ UNCHANGED <<tokens, seeds, skip_copulas, call, result, stats, reply>>

\* stats = SparseRenderer().get_coverage_stats(tokens, result)
GetCoverageStats ==
    /\ result # <<>>
    /\ stats' = <<get_coverage_stats(tokens, result[1])>>
    /\ UNCHANGED <<tokens, seeds, skip_copulas, call, result, rendered, view, reply>>

\* a document one token longer than those of the queries above
DisplayLen == MaxTokens + 1

\* one seed per chosen token, selector.add_seed(selector.select_range(tokens, i, i))
SeedsOn(toks, ids) ==
    [k \in 1..Cardinality(ids) |->
        select_range(toks, Sorted(ids)[k], Sorted(ids)[k], SeedUid(Sorted(ids)[k], Sorted(ids)[k]))]

\* the state after extract(tokens, seeds, zoom_level=0) over a line of lexemes
InitShown(lexemes) ==
    /\ tokens \in Lines(lexemes, DisplayLen)
    /\ seeds \in { SeedsOn(tokens, ids) : ids \in SUBSET (0..(DisplayLen - 1)) }
    /\ skip_copulas = FALSE
    /\ call = <<[zoom_level |-> 0, skip_copulas |-> None]>>
    /\ result = <<extract(skip_copulas, tokens, seeds, 0, None)>>
    /\ rendered = <<>>
    /\ view = <<>>
    /\ stats = <<>>
    /\ reply = <<>>

ContextWindows == 0..MaxWindow

InitDisplay == InitShown(WordLexemes)

NextDisplay ==
    \/ \E zoom_level \in ZoomLevels, override \in Overrides : Extract(zoom_level, override)
    \/ \E preserve_pronouns \in BOOLEAN : Render(preserve_pronouns)
    \/ \E context_window \in ContextWindows : RenderWithContext(context_window)
    \/ GetCoverageStats

SpecDisplay == InitDisplay /\ [][NextDisplay]_vars

\* display of lines that hold the pieces of a bracketed ellipsis
GapLexemes == { l \in WordLexemes : l.pos = "NOUN" } \cup PieceLexemes

InitGaps == InitShown(GapLexemes)

NextGaps ==
    \/ \E preserve_pronouns \in BOOLEAN : Render(preserve_pronouns)
    \/ GetCoverageStats

SpecGaps == InitGaps /\ [][NextGaps]_vars

\* seed capture: selector.add_seed(selector.select_range(tokens, start_id, end_id))
\* into an empty selector
SelectRange(start_id, end_id) ==
    /\ seeds = <<>>
    /\ seeds' = <<select_range(tokens, start_id, end_id, SeedUid(start_id, end_id))>>
    /\ UNCHANGED <<tokens, skip_copulas, call, result, rendered, view, stats, reply>>

\* str(uuid.uuid4())[:8] of a seed captured by character offsets
CharsUid(start_char, end_char) ==
    "chars-" \o ToString(start_char) \o "-" \o ToString(end_char)

\* selector.add_seed(selector.select_by_chars(tokens, start_char, end_char))
SelectByChars(start_char, end_char) ==
    /\ seeds = <<>>
    /\ seeds' = <<select_by_chars(tokens, start_char, end_char, CharsUid(start_char, end_char))>>
    /\ UNCHANGED <<tokens, skip_copulas, call, result, rendered, view, stats, reply>>

\* ids and offsets a caller may pass: one before the first, one past the last
IdArgs == -1..MaxTokens
CharArgs(toks) == 0..(IF Len(toks) = 0 THEN 1 ELSE toks[Len(toks)].end_char)

\* tokenize returns [] for a blank text, and a run of blanks is one token
SentenceLines ==
    { toks \in Lines(SentenceLexemes, MaxTokens) :
        /\ Len(toks) > 0 => \E k \in 1..Len(toks) : toks[k].pos # "SPACE"
        /\ \A k \in 1..(Len(toks) - 1) : ~(toks[k].pos = "SPACE" /\ toks[k + 1].pos = "SPACE") }

InitSelect ==
    /\ tokens \in SentenceLines
    /\ seeds = <<>>
    /\ skip_copulas = FALSE
    /\ call = <<>>
    /\ result = <<>>
    /\ rendered = <<>>
    /\ view = <<>>
    /\ stats = <<>>
    /\ reply = <<>>

NextSelect ==
    \/ \E start_id \in IdArgs, end_id \in IdArgs : SelectRange(start_id, end_id)
    \/ \E start_char \in CharArgs(tokens), end_char \in CharArgs(tokens) :
          SelectByChars(start_char, end_char)

SpecSelect == InitSelect /\ [][NextSelect]_vars

\* reply = selector.get_clause_token_ids(tokens, seed) for the stored seed
GetClauseTokenIds ==
    /\ seeds # <<>>
    /\ reply' = <<[call |-> "get_clause_token_ids", seed_id |-> seeds[1].id,
                   returned |-> get_clause_token_ids(tokens, seeds[1])]>>
    /\ UNCHANGED <<tokens, seeds, skip_copulas, call, result, rendered, view, stats>>

\* clause queries over token lists with clauses, well formed or not
TokenArgs == 0..(MaxTokens - 1)

InitClause ==
    /\ tokens \in ClauseSeqs
    /\ seeds = <<>>
    /\ skip_copulas = FALSE
    /\ call = <<>>
    /\ result = <<>>
    /\ rendered = <<>>
    /\ view = <<>>
    /\ stats = <<>>
    /\ reply = <<>>

NextClause ==
    \/ \E start_id \in TokenArgs, end_id \in TokenArgs :
          start_id <= end_id /\ SelectRange(start_id, end_id)
    \/ GetClauseTokenIds

SpecClause == InitClause /\ [][NextClause]_vars

\* selector.add_seed(seed)
AddSeed(seed) ==
    /\ Len(seeds) < MaxStored
    /\ seeds' = add_seed(seeds, seed)
    /\ reply' = <<[call |-> "add_seed", seed_id |-> seed.id, returned |-> Returns(None)]>>
    /\ UNCHANGED <<tokens, skip_copulas, call, result, rendered, view, stats>>

\* reply = selector.remove_seed(seed_id)
RemoveSeed(seed_id) ==
    /\ seeds' = remove_seed(seeds, seed_id).seeds
    /\ reply' = <<[call |-> "remove_seed", seed_id |-> seed_id,
                   returned |-> Returns(remove_seed(seeds, seed_id).returned)]>>
    /\ UNCHANGED <<tokens, skip_copulas, call, result, rendered, view, stats>>

\* selector.clear_seeds()
ClearSeeds ==
    /\ seeds' = <<>>
    /\ reply' = <<[call |-> "clear_seeds", seed_id |-> None, returned |-> Returns(None)]>>
    /\ UNCHANGED <<tokens, skip_copulas, call, result, rendered, view, stats>>

\* the seeds a caller holds over a line of nouns: one per token and one over
\* the first two tokens; a caller may hand the same Seed to add_seed again
NounLine == ParseLine([k \in 1..MaxTokens |-> [text |-> "cat", pos |-> "NOUN", whitespace |-> " "]])
SeedPool(toks) == SeedsOver(toks) \cup {select_range(toks, 0, 1, SeedUid(0, 1))}

InitSeedSet ==
    /\ tokens = NounLine
    /\ seeds = <<>>
    /\ skip_copulas = FALSE
    /\ call = <<>>
    /\ result = <<>>
    /\ rendered = <<>>
    /\ view = <<>>
    /\ stats = <<>>
    /\ reply = <<>>

NextSeedSet ==
    \/ \E seed \in SeedPool(tokens) : AddSeed(seed)
    \/ \E seed \in SeedPool(tokens) : RemoveSeed(seed.id)
    \/ ClearSeeds

SpecSeedSet == InitSeedSet /\ [][NextSeedSet]_vars

\* queries over documents with auxiliaries, in the mode the extractor was built with
AuxZoomLevels == 0..(MaxZoom + 1)

InitAux ==
    /\ tokens \in AuxSeqs
    /\ seeds \in SeedLists(tokens, 1)
    /\ skip_copulas \in BOOLEAN
    /\ call = <<>>
    /\ result = <<>>
    /\ rendered = <<>>
    /\ view = <<>>
    /\ stats = <<>>
    /\ reply = <<>>

NextAux ==
    \E zoom_level \in AuxZoomLevels : Extract(zoom_level, None)

SpecAux == InitAux /\ [][NextAux]_vars

\* queries whose zoom level reaches and exceeds the number of tokens
DeepZoomLevels == 0..(MaxTokens + MaxBeyond)

InitCap == InitWith(1)

NextCap ==
    \E zoom_level \in DeepZoomLevels, override \in Overrides : Extract(zoom_level, override)

SpecCap == InitCap /\ [][NextCap]_vars

(***************************************************************************)
(* Vocabulary of the properties.                                           *)
(***************************************************************************)
Called == call # <<>>
ZoomLevel == call[1].zoom_level
SkipOn == ShouldSkip(skip_copulas, call[1].skip_copulas)
WordIds == SeqToSet(result[1].word_ids)
TokenIds == {tokens[k].id : k \in 1..Len(tokens)}

\* a token whose part of speech is AUX, whose label is ROOT and whose
\* lowercased text is a form of "be"
BeForms == {"be", "is", "am", "are", "was", "were", "been", "being"}
TransparentIds ==
    { tokens[k].id : k \in { j \in 1..Len(tokens) :
        tokens[j].pos = "AUX" /\ tokens[j].dep = "ROOT"
        /\ Lower(tokens[j].text) \in BeForms } }

\* the ids of every seed of the list
AllSeedIds == UNION { SeqToSet(seeds[k].word_ids) : k \in 1..Len(seeds) }

WordIdsAt(seed_list, zoom_level) ==
    SeqToSet(extract(skip_copulas, tokens, seed_list, zoom_level, call[1].skip_copulas).word_ids)

Reorderings(n) == { p \in [1..n -> 1..n] : \A i, j \in 1..n : p[i] = p[j] => i = j }

\* the same seed captured by another SeedSelector: equal content, another uuid
Recaptured(seed) == [seed EXCEPT !.id = "other-" \o seed.id]

StrictlyAscending(s) == \A i \in 1..(Len(s) - 1) : s[i] < s[i + 1]

\* C1 as stated: for a non-empty seed list and a zoom level >= 0, under either
\* setting of the transparent-node mode, the result's word_ids contains every
\* id of every seed.
C1_SeedInclusionAsStated ==
    (Called /\ Len(seeds) > 0 /\ ZoomLevel >= 0) => AllSeedIds \subseteq WordIds

\* C1 amended: the result's word_ids contains every seed id, except the ids of
\* transparent tokens while the transparent-node mode is enabled.
C1_SeedInclusion ==
    (Called /\ Len(seeds) > 0 /\ ZoomLevel >= 0) =>
        (AllSeedIds \ (IF SkipOn THEN TransparentIds ELSE {})) \subseteq WordIds

\* a seed on a transparent token next to a seed on another token, mode enabled
C1_Witness ==
    /\ Called /\ ZoomLevel >= 0 /\ SkipOn
    /\ AllSeedIds \cap TransparentIds # {}
    /\ AllSeedIds \ TransparentIds # {}
    /\ AllSeedIds \ TransparentIds \subseteq WordIds

\* C2: for fixed tokens, seeds and mode, the word_ids at zoom level k + 1 is a
\* superset of the word_ids at zoom level k, for every k >= 0.
C2_Monotonicity ==
    (Called /\ ZoomLevel >= 0) => WordIds \subseteq WordIdsAt(seeds, ZoomLevel + 1)

\* a level k >= 1 whose next level adds a token
C2_Witness ==
    /\ Called /\ ZoomLevel >= 1
    /\ WordIds # WordIdsAt(seeds, ZoomLevel + 1)
    /\ WordIds # WordIdsAt(seeds, ZoomLevel - 1)

\* C3: the word_ids list depends on the seed contents only: every reordering
\* of the seed list, captured anew by another selector, gives the identical
\* list for the same tokens, zoom level and mode; and issuing the same call
\* again on the same extractor returns the same result.
C3_SameInEveryOrder ==
    Called =>
        \A p \in Reorderings(Len(seeds)) :
            extract(skip_copulas, tokens, [k \in 1..Len(seeds) |-> Recaptured(seeds[p[k]])],
                    ZoomLevel, call[1].skip_copulas).word_ids = result[1].word_ids

C3_SameOnRepeat == (Called /\ call' = call) => result' = result

C3_Determinism == [](C3_SameInEveryOrder) /\ [][C3_SameOnRepeat]_vars

\* two seeds on different tokens, expanded by at least one hop
C3_Witness ==
    /\ Called /\ Len(seeds) >= 2 /\ ZoomLevel >= 1
    /\ seeds[1].word_ids # seeds[2].word_ids
    /\ AllSeedIds \subseteq TokenIds
    /\ WordIds # AllSeedIds

\* C4 as stated: at zoom level 0 the word_ids is exactly the union of the
\* seeds' word_ids.
C4_LevelZeroAsStated ==
    (Called /\ Len(seeds) > 0 /\ ZoomLevel = 0) => WordIds = AllSeedIds

\* C4 amended: at zoom level 0 the word_ids is the union of the seeds'
\* word_ids, less the transparent tokens while the mode is enabled.
C4_LevelZero ==
    (Called /\ Len(seeds) > 0 /\ ZoomLevel = 0) =>
        WordIds = AllSeedIds \ (IF SkipOn THEN TransparentIds ELSE {})

\* level 0 over a seed that has neighbours which stay out
C4_Witness ==
    /\ Called /\ ZoomLevel = 0 /\ Len(seeds) > 0
    /\ WordIds # {}
    /\ WordIds # WordIdsAt(seeds, 1)

\* C5: with the transparent-node mode enabled, by the instance setting or by
\* the per-call override, no transparent token is in the result's word_ids.
C5_NoTransparentToken ==
    (Called /\ SkipOn) => WordIds \cap TransparentIds = {}

\* the mode enabled by the override alone, a seed on the transparent token
C5_Witness ==
    /\ Called /\ ~skip_copulas /\ call[1].skip_copulas = "True"
    /\ AllSeedIds \cap TransparentIds # {}
    /\ WordIds # {}

\* C6: with the mode enabled, one seed on one token whose head is transparent,
\* at zoom level 1: every other child of that head is in the word_ids and the
\* head is not.
C6_SiblingsThroughCopula ==
    \A k \in 1..Len(tokens) :
        ( /\ Called /\ SkipOn /\ ZoomLevel = 1
          /\ Len(seeds) = 1 /\ seeds[1].word_ids = <<tokens[k].id>>
          /\ tokens[k].head_id \in TransparentIds )
        => /\ { tokens[j].id : j \in { i \in 1..Len(tokens) :
                                         tokens[i].head_id = tokens[k].head_id } }
                \subseteq WordIds
           /\ tokens[k].head_id \notin WordIds

\* "It is happy": the seed on "It" reaches "happy" and leaves "is" out
C6_Witness ==
    /\ Called /\ SkipOn /\ ZoomLevel = 1 /\ Len(seeds) = 1
    /\ \E k, j \in 1..Len(tokens) :
        /\ k # j
        /\ seeds[1].word_ids = <<tokens[k].id>>
        /\ tokens[k].head_id \in TransparentIds
        /\ tokens[j].head_id = tokens[k].head_id
        /\ tokens[j].id \in WordIds

\* C7: extract over an empty seed list returns a result with empty word_ids
\* and empty seed_ids, for any tokens, zoom level and mode, and that result
\* renders to the empty string.
C7_EmptySeeds ==
    (Called /\ Len(seeds) = 0) =>
        /\ result[1].word_ids = <<>>
        /\ result[1].seed_ids = <<>>
        /\ rendered # <<>> => rendered[1] = ""

\* no seed over a document with tokens, extracted and rendered
C7_Witness ==
    /\ Called /\ Len(seeds) = 0 /\ Len(tokens) > 0
    /\ rendered = <<"">>

\* C8 as stated: a call with a negative zoom level fails and returns no
\* SubgraphResult.
C8_NegativeZoomFails == (Called /\ ZoomLevel < 0) => result = <<>>

\* C9: the word_ids of every result is strictly ascending, so without a
\* duplicate, also for overlapping or repeated seeds, and the zoom_level field
\* is the requested level.
C9_SortedResult ==
    Called => /\ StrictlyAscending(result[1].word_ids)
              /\ result[1].zoom_level = ZoomLevel

\* seeds given in descending order, or the same seed twice
C9_Witness ==
    /\ Called /\ Len(seeds) >= 2 /\ Len(result[1].word_ids) >= 2
    /\ seeds[1].start_id >= seeds[2].start_id

\* C10: the word_ids over the seed list A followed by B is the union of the
\* word_ids over A alone and over B alone, A and B non-empty.
C10_SeedUnion ==
    Called =>
        \A n \in 1..(Len(seeds) - 1) :
            WordIds = WordIdsAt(SubSeq(seeds, 1, n), ZoomLevel)
                      \cup WordIdsAt(SubSeq(seeds, n + 1, Len(seeds)), ZoomLevel)

\* two seeds whose neighbourhoods each add a token the other lacks
C10_Witness ==
    /\ Called /\ Len(seeds) = 2 /\ ZoomLevel >= 1
    /\ WordIds # WordIdsAt(SubSeq(seeds, 1, 1), ZoomLevel)
    /\ WordIds # WordIdsAt(SubSeq(seeds, 2, 2), ZoomLevel)

\* C11: a call at a zoom level at or above the number of tokens returns the
\* word_ids of the call at the zoom level equal to the number of tokens: the
\* expansion stops once an iteration adds no id.
C11_CappedByGraph ==
    (Called /\ ZoomLevel >= Len(tokens)) =>
        result[1].word_ids =
            extract(skip_copulas, tokens, seeds, Len(tokens), call[1].skip_copulas).word_ids

\* a level above the token count over a document where one hop is not enough
C11_Witness ==
    /\ Called /\ Len(tokens) >= 3 /\ ZoomLevel > Len(tokens)
    /\ WordIdsAt(seeds, 1) # WordIds
    /\ WordIdsAt(seeds, 1) # AllSeedIds

\* C12: extract, render, render_with_context and get_coverage_stats leave the
\* token sequence (children_ids included), the seeds and the selector's seed
\* list as they were, and the three renderer operations leave the result they
\* are given as it was.
C12_InputsUntouched ==
    [][ /\ tokens' = tokens
        /\ seeds' = seeds
        /\ (view' # view \/ stats' # stats) /\ (view' # <<>> \/ stats' # <<>>)
              => result' = result ]_vars

\* every renderer operation has run over a result that omits some token
C12_Witness ==
    /\ view # <<>> /\ view[1].op = "render_with_context" /\ view[1].context_window > 0
    /\ stats # <<>> /\ stats[1].gap_count > 0
    /\ Len(seeds) > 0

\* has render(tokens, result, preserve_pronouns) been the latest renderer call
Rendered(preserve_pronouns) ==
    /\ view # <<>> /\ view[1].op = "render"
    /\ view[1].preserve_pronouns = preserve_pronouns

\* the maximal runs of consecutive tokens whose id is not in ids: one per
\* token that is out while the token before it, if any, is in
GapRuns(ids) ==
    Cardinality({ k \in 1..Len(tokens) :
        /\ tokens[k].id \notin ids
        /\ k = 1 \/ tokens[k - 1].id \in ids })

\* Tokenizer.reconstruct: the text the tokens were cut from
RECURSIVE SourceText(_, _)
SourceText(toks, k) ==
    IF k > Len(toks) THEN ""
    ELSE toks[k].text \o toks[k].whitespace_after \o SourceText(toks, k + 1)

PlainTokens ==
    \A k \in 1..Len(tokens) :
        tokens[k].text # "" /\ ~StrContains(tokens[k].text, DefaultPlaceholder)

\* C13 as stated: when every token text is non-empty and free of the
\* placeholder and the result holds an existing token, the output of render
\* has one placeholder per maximal run of omitted tokens.
C13_OnePlaceholderPerRunAsStated ==
    (Rendered(FALSE) /\ PlainTokens /\ WordIds \cap TokenIds # {}) =>
        StrCount(rendered[1], DefaultPlaceholder) = GapRuns(WordIds)

\* C13 amended: the same count, when moreover the text the tokens were cut
\* from does not contain the placeholder across adjacent tokens.
C13_OnePlaceholderPerRun ==
    (/\ Rendered(FALSE) /\ PlainTokens /\ WordIds \cap TokenIds # {}
     /\ ~StrContains(SourceText(tokens, 1), DefaultPlaceholder)) =>
        StrCount(rendered[1], DefaultPlaceholder) = GapRuns(WordIds)

\* a leading run of two omitted tokens and a trailing one, next to a bracket
C13_Witness ==
    /\ Rendered(FALSE) /\ PlainTokens
    /\ ~StrContains(SourceText(tokens, 1), DefaultPlaceholder)
    /\ Len(tokens) >= 4 /\ {tokens[1].id, tokens[2].id} \cap WordIds = {}
    /\ tokens[3].id \in WordIds /\ tokens[3].text = "]"
    /\ tokens[Len(tokens)].id \notin WordIds
    /\ GapRuns(WordIds) = 2

\* C14: gap_count of get_coverage_stats is the number of maximal runs of
\* consecutive tokens whose id is not in the result's word_ids; a result whose
\* word_ids is exactly the ids of a non-empty sequence has gap_count 0 and
\* coverage_percent 100.
C14_GapCount ==
    stats # <<>> =>
        /\ stats[1].gap_count = GapRuns(WordIds)
        /\ (Len(tokens) > 0 /\ WordIds = TokenIds) =>
              /\ stats[1].gap_count = 0
              /\ stats[1].coverage_percent.num = 100 * stats[1].coverage_percent.den

\* statistics over a result with a run of two omitted tokens and another run
C14_Witness ==
    /\ stats # <<>> /\ stats[1].gap_count = 2
    /\ \E k \in 1..(Len(tokens) - 1) : {tokens[k].id, tokens[k + 1].id} \cap WordIds = {}
    /\ WordIds \cap TokenIds # {}

\* the ids of existing tokens at most w away from an id of the result
Within(w) ==
    { i \in 0..(Len(tokens) - 1) :
        \E x \in WordIds : (IF i >= x THEN i - x ELSE x - i) <= w }

\* C15: render_with_context(tokens, result, w) returns what render returns for
\* the result whose word_ids are the ids of existing tokens at most w away from
\* an id of the given result; with w = 0 that is render(tokens, result).
C15_ContextWindow ==
    (view # <<>> /\ view[1].op = "render_with_context") =>
        LET w == view[1].context_window
        IN  /\ rendered[1] =
                  render(DefaultPlaceholder, tokens,
                         SubgraphResult(Sorted(Within(w)), result[1].zoom_level,
                                        result[1].seed_ids),
                         FALSE)
            /\ w = 0 => rendered[1] = render(DefaultPlaceholder, tokens, result[1], FALSE)

\* a window that adds tokens on both sides of an id, is cut at the first
\* token and still leaves a gap
C15_Witness ==
    /\ view # <<>> /\ view[1].op = "render_with_context" /\ view[1].context_window = 1
    /\ Len(tokens) >= 4 /\ WordIds = {0, 1}
    /\ StrCount(rendered[1], DefaultPlaceholder) = 1
    /\ rendered[1] # render(DefaultPlaceholder, tokens, result[1], FALSE)

\* C16: with preserve_pronouns true and a non-empty word_ids, render emits the
\* tokens whose id is in word_ids or in find_pronouns(tokens): its output is
\* that of render without preservation over the result extended by the
\* pronoun ids, and the text of every pronoun token is in it.
C16_PronounsPreserved ==
    (Rendered(TRUE) /\ Len(result[1].word_ids) > 0) =>
        LET pronoun_ids == { tokens[k].id : k \in { j \in 1..Len(tokens) :
                                tokens[j].pos = "PRON" \/ StrLower(tokens[j].text) \in PRONOUNS } }
        IN  /\ rendered[1] =
                  render(DefaultPlaceholder, tokens,
                         SubgraphResult(Sorted(WordIds \cup pronoun_ids),
                                        result[1].zoom_level, result[1].seed_ids),
                         FALSE)
            /\ \A k \in 1..Len(tokens) :
                  tokens[k].id \in pronoun_ids => StrContains(rendered[1], tokens[k].text)

\* pronouns of both kinds outside the subgraph, kept next to an omitted noun
C16_Witness ==
    /\ Rendered(TRUE) /\ Len(result[1].word_ids) > 0
    /\ \E i, j, k \in 1..Len(tokens) :
          /\ tokens[i].pos = "PRON" /\ tokens[i].id \notin WordIds
          /\ tokens[j].pos # "PRON" /\ tokens[j].text = "That" /\ tokens[j].id \notin WordIds
          /\ tokens[k].pos = "NOUN" /\ tokens[k].id \notin WordIds
    /\ rendered[1] # render(DefaultPlaceholder, tokens, result[1], FALSE)

\* C17 as stated: a call of select_range with start_id > end_id or with a
\* negative start_id or end_id fails and returns no Seed, so no seed of such a
\* range is ever captured.
C17_MalformedRangeFails ==
    \A k \in 1..Len(seeds) :
        ~(seeds[k].start_id > seeds[k].end_id \/ seeds[k].start_id < 0 \/ seeds[k].end_id < 0)

\* a range select_range is meant to accept: 0 <= start_id <= end_id
WellFormed(seed) == 0 <= seed.start_id /\ seed.start_id <= seed.end_id

\* C18 as stated: a seed created over an empty token sequence, by select_range
\* (of a well-formed range) or by select_by_chars, has an empty word_ids and
\* the empty text.
C18_EmptySequenceSeed ==
    Len(tokens) = 0 =>
        \A k \in 1..Len(seeds) :
            WellFormed(seeds[k]) => seeds[k].word_ids = <<>> /\ seeds[k].text = ""

\* the text C19 describes: each selected token's text and trailing whitespace
\* in ascending id order, trimmed at both ends
TrimmedText(ids) ==
    LET selected == SelectSeq(tokens, LAMBDA t : t.id \in ids)
    IN  Strip(SourceText(selected, 1))

\* C19 as stated: for a well-formed range the word_ids is the list
\* start_id..end_id and the text is the trimmed concatenation of the selected
\* tokens' text and trailing whitespace; over the whole sequence it is the
\* trimmed source text.
C19_SeedText ==
    \A k \in 1..Len(seeds) :
        WellFormed(seeds[k]) =>
            /\ seeds[k].word_ids = [i \in 1..(seeds[k].end_id - seeds[k].start_id + 1) |->
                                        seeds[k].start_id + i - 1]
            /\ seeds[k].text = TrimmedText(seeds[k].start_id..seeds[k].end_id)
            /\ (seeds[k].start_id = 0 /\ seeds[k].end_id = Len(tokens) - 1) =>
                  seeds[k].text = Strip(SourceText(tokens, 1))

\* the ids of the tokens whose text ends a sentence
Terminals == { tokens[k].id : k \in { j \in 1..Len(tokens) : tokens[j].text \in {".", "!", "?"} } }

\* C20: for a seed whose start_id is the id of a token, sentence_start_id is
\* one past the largest terminal id below start_id (0 without one) and
\* sentence_end_id is the smallest terminal id at or above start_id (the last
\* token id without one); so sentence_start_id <= start_id <= sentence_end_id.
C20_SentenceBounds ==
    \A k \in 1..Len(seeds) :
        LET seed == seeds[k]
            before == { i \in Terminals : i < seed.start_id }
            from == { i \in Terminals : i >= seed.start_id }
        IN  (0 <= seed.start_id /\ seed.start_id < Len(tokens)) =>
                /\ seed.sentence_start_id = IF before = {} THEN 0 ELSE SetMax(before) + 1
                /\ seed.sentence_end_id = IF from = {} THEN Len(tokens) - 1 ELSE SetMin(from)
                /\ seed.sentence_start_id <= seed.start_id
                /\ seed.start_id <= seed.sentence_end_id

\* a seed between two sentence ends, and one with no sentence end after it
C20_Witness ==
    /\ Len(tokens) >= 3 /\ Len(seeds) = 1
    /\ seeds[1].start_id = 1 /\ seeds[1].end_id >= 1
    /\ tokens[1].text \in {".", "!", "?"} /\ tokens[2].text = "Hi"
    /\ tokens[3].text \in {".", "!", "?"}
    /\ seeds[1].sentence_start_id = 1 /\ seeds[1].sentence_end_id = 2

\* the head chain from token_id: each token once, until a token has no head,
\* names a head that is no token, or names a token already on the chain
RECURSIVE HeadChain(_, _)
HeadChain(toks, chain) ==
    LET last == TokenById(toks, chain[Len(chain)])
    IN  IF last.head_id >= 0 /\ HasToken(toks, last.head_id)
           /\ last.head_id \notin SeqToSet(chain)
        THEN HeadChain(toks, Append(chain, last.head_id))
        ELSE chain

\* the first token of a chain with a clause-boundary label, else its last token
FirstClauseToken(toks, chain) ==
    LET labelled == { k \in 1..Len(chain) : TokenById(toks, chain[k]).dep \in clause_deps }
    IN  IF labelled = {} THEN chain[Len(chain)] ELSE chain[SetMin(labelled)]

\* the chain from token_id ends at a token without a head: no cycle, no missing head
ChainEndsAtRoot(toks, token_id) ==
    LET chain == HeadChain(toks, <<token_id>>)
    IN  TokenById(toks, chain[Len(chain)]).head_id = -1

\* C21: the clause_root_id of a seed captured at an existing token is the id of
\* the first token of the head chain from start_id, start_id included, whose
\* dep is a clause-boundary label; when the chain meets a cycle or a missing
\* head before such a token, it is the last token the chain reached
C21_ClauseRoot ==
    \A k \in 1..Len(seeds) :
        HasToken(tokens, seeds[k].start_id) =>
            seeds[k].clause_root_id =
                <<FirstClauseToken(tokens, HeadChain(tokens, <<seeds[k].start_id>>))>>

\* a seed whose chain climbs from an unlabelled start to a labelled token
C21_Witness ==
    /\ seeds # <<>>
    /\ HasToken(tokens, seeds[1].start_id)
    /\ LET chain == HeadChain(tokens, <<seeds[1].start_id>>)
       IN  /\ Len(chain) >= 3
           /\ TokenById(tokens, chain[1]).dep \notin clause_deps
           /\ TokenById(tokens, chain[2]).dep = "advcl"
           /\ seeds[1].clause_root_id = <<chain[2]>>

\* a seed whose chain runs into a cycle or a missing head without meeting a label
C21_WitnessCut ==
    /\ seeds # <<>>
    /\ HasToken(tokens, seeds[1].start_id)
    /\ LET chain == HeadChain(tokens, <<seeds[1].start_id>>)
       IN  /\ Len(chain) >= 2
           /\ ~ChainEndsAtRoot(tokens, seeds[1].start_id)
           /\ \A j \in 1..Len(chain) : TokenById(tokens, chain[j]).dep \notin clause_deps
           /\ seeds[1].clause_root_id = <<chain[Len(chain)]>>

\* every head chain of the document ends at a token without a head
ForestShaped(toks) ==
    \A k \in 1..Len(toks) : ChainEndsAtRoot(toks, toks[k].id)

\* get_clause_token_ids has answered for the stored seed
ClauseAsked ==
    /\ reply # <<>>
    /\ reply[1].call = "get_clause_token_ids"

\* C22: over a forest-shaped document get_clause_token_ids(tokens, seed) returns,
\* in ascending order, exactly the ids of the tokens whose head chain passes
\* through seed.clause_root_id, the clause root included; it has no zoom level
\* among its inputs, and seed.start_id is always among the ids returned
C22_ClauseTokens ==
    (ClauseAsked /\ ForestShaped(tokens)) =>
        /\ seeds[1].clause_root_id # <<>> =>
              reply[1].returned =
                  Returns(Sorted({ i \in TokenIds :
                      seeds[1].clause_root_id[1] \in SeqToSet(HeadChain(tokens, <<i>>)) }))
        /\ reply[1].returned.raises = None
        /\ seeds[1].start_id \in SeqToSet(reply[1].returned.value)

\* a clause below the main verb: a seed on a dependent of the clause root
C22_Witness ==
    /\ ClauseAsked
    /\ ForestShaped(tokens)
    /\ Len(tokens) = 3
    /\ seeds[1].clause_root_id # <<>>
    /\ seeds[1].clause_root_id[1] # seeds[1].start_id
    /\ TokenById(tokens, seeds[1].clause_root_id[1]).dep = "advcl"
    /\ Len(reply[1].returned.value) = 2

\* C30: get_clause_token_ids returns for every token list and every seed that
\* select_range captured over it, lists whose head_id values form a cycle
\* included: no call ends in RecursionError
C30_ClauseQueryReturns ==
    ClauseAsked => reply[1].returned.raises = None

\* the ids of the tokens whose span shares a character with [start_char, end_char)
OverlappingIds(toks, start_char, end_char) ==
    { toks[k].id : k \in { j \in 1..Len(toks) :
        toks[j].start_char < end_char /\ toks[j].end_char > start_char } }

\* the stored seed is the one select_by_chars(tokens, start_char, end_char) returned
CapturedByChars(start_char, end_char) ==
    /\ seeds # <<>>
    /\ seeds[1].id = CharsUid(start_char, end_char)

\* C23: select_by_chars(tokens, start_char, end_char) returns the seed that
\* select_range returns for the smallest and the largest id among the tokens
\* with token.start_char < end_char and token.end_char > start_char, and the
\* seed of select_range(tokens, 0, 0) when no token overlaps the interval
C23_SelectByChars ==
    \A start_char \in CharArgs(tokens), end_char \in CharArgs(tokens) :
        CapturedByChars(start_char, end_char) =>
            LET ids == OverlappingIds(tokens, start_char, end_char)
                uid == CharsUid(start_char, end_char)
            IN  seeds[1] = IF ids = {} THEN select_range(tokens, 0, 0, uid)
                           ELSE select_range(tokens, SetMin(ids), SetMax(ids), uid)

\* an interval that starts inside one token and ends inside a later one
C23_Witness ==
    \E start_char \in CharArgs(tokens), end_char \in CharArgs(tokens) :
        /\ CapturedByChars(start_char, end_char)
        /\ seeds[1].start_id < seeds[1].end_id
        /\ seeds[1].start_id > 0
        /\ TokenById(tokens, seeds[1].start_id).start_char < start_char
        /\ seeds[1].word_ids = Sorted(OverlappingIds(tokens, start_char, end_char))

\* an interval between two tokens: the seed is the one of token 0
C23_WitnessNoOverlap ==
    \E start_char \in CharArgs(tokens), end_char \in CharArgs(tokens) :
        /\ CapturedByChars(start_char, end_char)
        /\ start_char < end_char
        /\ OverlappingIds(tokens, start_char, end_char) = {}
        /\ Len(tokens) > 1
        /\ seeds[1].word_ids = <<0>>

\* remove_seed(seed_id) is the call that has just returned
Removed == reply # <<>> /\ reply[1].call = "remove_seed"

\* C24: remove_seed(id) returns true exactly when a seed with that id was
\* stored before the call; when it returns true, one seed with that id is gone
\* and every other stored seed keeps its place in the order; when it returns
\* false the stored seeds are unchanged
C24_RemoveSeed ==
    [][ (reply' # <<>> /\ reply'[1].call = "remove_seed") =>
          LET held == { k \in 1..Len(seeds) : seeds[k].id = reply'[1].seed_id }
          IN  /\ reply'[1].returned = Returns(held # {})
              /\ held # {} => \E k \in held : seeds' = PopAt(seeds, k)
              /\ held = {} => seeds' = seeds ]_vars

\* a removal that returned true and left two different seeds stored, the id
\* removed not being the greatest of the three
C24_Witness ==
    /\ Removed
    /\ reply[1].returned = Returns(TRUE)
    /\ Len(seeds) = 2
    /\ seeds[1].start_id > seeds[2].start_id
    /\ reply[1].seed_id = SeedUid(1, 1)
    /\ seeds[1].start_id = 2

\* C29: once remove_seed(id) has returned, no stored seed has that id
C29_RemovedIsGone ==
    Removed => \A k \in 1..Len(seeds) : seeds[k].id # reply[1].seed_id

\* the ids at undirected tree distance at most k from some id of ids: an edge
\* joins a token and the token its head_id names
RECURSIVE TreeBall(_, _)
TreeBall(ids, k) ==
    IF k = 0 THEN ids
    ELSE LET ball == TreeBall(ids, k - 1)
         IN  ball \cup
             { i \in TokenIds : \E j \in ball \cap TokenIds :
                 \/ TokenById(tokens, i).head_id = j
                 \/ TokenById(tokens, j).head_id = i }

\* C25: with transparent mode disabled, over a forest-shaped document, extract
\* at zoom level k returns exactly the ids whose undirected tree distance to
\* some seed id is at most k
C25_TreeDistance ==
    (Called /\ ~SkipOn /\ ZoomLevel >= 0 /\ ForestShaped(tokens)) =>
        WordIds = TreeBall(AllSeedIds, ZoomLevel)

\* a sibling of the seed reached only through their head: absent at level 1,
\* where the head is present, and present at level 2
C25_Witness ==
    /\ Called /\ ~SkipOn /\ ZoomLevel = 2
    /\ \E s \in AllSeedIds \cap TokenIds, b \in TokenIds :
          /\ b # s
          /\ TokenById(tokens, s).head_id >= 0
          /\ TokenById(tokens, s).head_id = TokenById(tokens, b).head_id
          /\ TokenById(tokens, s).head_id \in WordIdsAt(seeds, 1)
          /\ b \notin WordIdsAt(seeds, 1)
          /\ b \in WordIds

\* the adjacency the latest extract call built, transparent mode enabled
TransparentAdjacency == _build_adjacency(tokens, _find_copula_ids(tokens))

\* the children of a transparent token are adjacent to each other
ChildrenLinked ==
    \A t \in TransparentIds :
        \A c, d \in SeqToSet(TokenById(tokens, t).children_ids) :
            c # d => d \in TransparentAdjacency[c]

\* C26: in the adjacency built with transparent mode enabled, the neighbour set
\* of a transparent token is empty and none of its children has it as a
\* neighbour, while its children are adjacent to each other
C26_TransparentIsolated ==
    (Called /\ SkipOn /\ seeds # <<>>) =>
        /\ \A t \in TransparentIds :
              /\ TransparentAdjacency[t] = {}
              /\ \A c \in SeqToSet(TokenById(tokens, t).children_ids) :
                    t \notin TransparentAdjacency[c]
        /\ ChildrenLinked

\* the word_ids of the latest query, and of the same query in the other mode
WordIdsInMode(mode) ==
    IF SkipOn = mode THEN WordIds
    ELSE SeqToSet(extract(mode, tokens, seeds, ZoomLevel, None).word_ids)

\* C27: transparent mode affects root-position copulas only: every token that
\* is not transparent and is in the result with the mode disabled is in the
\* result with the mode enabled, and over a document without a transparent
\* token the two results are equal
C27_OnlyRootCopulas ==
    Called =>
        /\ (WordIdsInMode(FALSE) \ TransparentIds) \subseteq WordIdsInMode(TRUE)
        /\ TransparentIds = {} => WordIdsInMode(TRUE) = WordIdsInMode(FALSE)

\* a query with the mode enabled that returns an auxiliary which is not the
\* root, in a document whose root is a copula, the auxiliary being no seed
C27_Witness ==
    /\ Called /\ SkipOn
    /\ TransparentIds # {}
    /\ WordIdsInMode(FALSE) \cap TransparentIds # {}
    /\ \E i \in WordIds \ AllSeedIds :
          /\ HasToken(tokens, i)
          /\ TokenById(tokens, i).pos = "AUX"
          /\ TokenById(tokens, i).dep # "ROOT"
          /\ i \in WordIdsInMode(FALSE)

\* a Seed built by hand whose word_ids is the word_ids of an extraction
ZoomedSeed(word_ids) ==
    [ id |-> "zoomed",
      start_id |-> IF Len(word_ids) = 0 THEN 0 ELSE word_ids[1],
      end_id |-> IF Len(word_ids) = 0 THEN 0 ELSE word_ids[Len(word_ids)],
      word_ids |-> word_ids,
      text |-> "",
      sentence_start_id |-> 0,
      sentence_end_id |-> 0,
      clause_root_id |-> <<>> ]

\* the word_ids list of the latest query repeated at another level, from other seeds
WordIdListAt(seed_list, zoom_level) ==
    extract(skip_copulas, tokens, seed_list, zoom_level, call[1].skip_copulas).word_ids

\* C28: with transparent mode disabled, extracting at level j from one seed
\* whose word_ids is the word_ids of an extraction at level k gives the
\* word_ids of one extraction at level j + k from the original seeds
C28_ZoomComposes ==
    (Called /\ ~SkipOn /\ ZoomLevel >= 0) =>
        \A j \in 0..ZoomLevel, k \in 0..ZoomLevel :
            j + k = ZoomLevel =>
                WordIdListAt(<<ZoomedSeed(WordIdListAt(seeds, k))>>, j) = result[1].word_ids

\* a query at level 2 whose result is reached neither at level 1 nor at level 0
C28_Witness ==
    /\ Called /\ ~SkipOn /\ ZoomLevel = 2
    /\ WordIdListAt(seeds, 1) # result[1].word_ids
    /\ WordIdListAt(seeds, 0) # WordIdListAt(seeds, 1)
    /\ WordIdListAt(<<ZoomedSeed(WordIdListAt(seeds, 1))>>, 1) = result[1].word_ids

====
